---- MODULE Spec2Model ----
(***************************************************************************)
(* PLM-Translator: the translator service (language cache, translation     *)
(* client), the /translate request validation and the test-result store.  *)
(* Python values are modelled as tagged records; strings that are only     *)
(* compared for equality are TLA+ strings, strings that are sorted carry   *)
(* their code-point order in CodePointRank.                                *)
(***************************************************************************)
EXTENDS Integers, Sequences, FiniteSets, TLC

VARIABLES
    languages_cache,  \* TranslatorService.languages_cache
    lang_fetches,     \* number of requests.get calls made by the service so far
    lang_calls,       \* number of get_supported_languages calls so far
    lang_ret,         \* outcome of the last get_supported_languages call
    lang_first_ok,    \* what the first successful call returned (history)
    lang_ok_at,       \* number of the first successful call, 0 before it (history)
    config,           \* AzureTranslatorConfig: the three class attributes
    tr_ret,           \* outcome of translate_text, when it was the last operation
    val_ret,          \* outcome of validate_translation_request, when it was the last
    http,             \* response of POST /translate, when it was the last operation
    test_results,     \* the rows of table test_results
    next_id,          \* the next value of the id column
    clock,            \* the last reading of the UTC clock
    db_last,          \* the request on the table being answered, with its response
    just_saved,       \* the last successful save, until a row is deleted (history)
    workers,          \* per worker thread: its request in progress and its db.session
    ok_saves,         \* number of save requests answered 200 (history)
    ok_deletes,       \* number of delete requests answered 200 (history)
    callers           \* per caller: its get_supported_languages call in progress

lang_vars == <<languages_cache, lang_fetches, lang_calls, lang_ret,
               lang_first_ok, lang_ok_at>>

tr_vars == <<config, tr_ret, val_ret, http>>

db_vars == <<test_results, next_id, clock, db_last, just_saved>>

step_vars == <<workers, ok_saves, ok_deletes, callers>>

vars == <<lang_vars, tr_vars, db_vars, step_vars>>

-----------------------------------------------------------------------------
(* Bounds of the model.                                                    *)

MaxLangCalls == 4
MaxIds == 3
MaxClock == 2
MaxPage == 2
MaxPerPage == 2
NumWorkers == 2
NumCallers == 2

-----------------------------------------------------------------------------
(* Python exceptions: the classes the handlers distinguish, with the       *)
(* inheritance the except clauses rely on.                                 *)

NoExc == "none"

ExcParent(c) ==
    CASE c = "Timeout"          -> "RequestException"
      [] c = "ConnectionError"  -> "RequestException"
      [] c = "HTTPError"        -> "RequestException"
      [] c = "JSONDecodeError"  -> "RequestException"
      [] c = "RequestException" -> "Exception"
      [] c = "ValueError"       -> "Exception"
      [] c = "KeyError"         -> "Exception"
      [] c = "IndexError"       -> "Exception"
      [] c = "AttributeError"   -> "Exception"
      [] c = "TypeError"        -> "Exception"
      [] c = "OverflowError"    -> "Exception"
      [] c = "SQLAlchemyError"  -> "Exception"
      [] OTHER                  -> "BaseException"

RECURSIVE IsInstance(_, _)
IsInstance(c, cls) ==
    IF c = cls THEN TRUE
    ELSE IF c = "BaseException" THEN FALSE
    ELSE IsInstance(ExcParent(c), cls)

-----------------------------------------------------------------------------
(* Language catalog: TranslatorService.get_supported_languages             *)

Entry(k, t) == [key |-> k, text |-> t]

Sentinel == Entry("", "Select Target Language")

\* The strings the modelled provider can send, in code-point order
\* (upper case sorts before lower case).
CodePointRank(s) ==
    CASE s = "Arabic" -> 1
      [] s = "French" -> 2
      [] s = "ar"     -> 3
      [] s = "arabic" -> 4
      [] s = "fr"     -> 5
      [] OTHER        -> 0

RECURSIVE Insert(_, _)
\* insertion after every element that is not greater: a stable sort
Insert(sorted, e) ==
    IF sorted = <<>> THEN <<e>>
    ELSE IF CodePointRank(e.text) < CodePointRank(Head(sorted).text)
         THEN <<e>> \o sorted
         ELSE <<Head(sorted)>> \o Insert(Tail(sorted), e)

RECURSIVE SortedByText(_)
SortedByText(s) ==
    IF s = <<>> THEN <<>>
    ELSE Insert(SortedByText(SubSeq(s, 1, Len(s) - 1)), s[Len(s)])

_get_fallback_languages ==
    << Sentinel,
       Entry("ar", "Arabic"), Entry("zh", "Chinese (Simplified)"),
       Entry("da", "Danish"), Entry("nl", "Dutch"), Entry("fi", "Finnish"),
       Entry("fr", "French"), Entry("de", "German"), Entry("hi", "Hindi"),
       Entry("it", "Italian"), Entry("ja", "Japanese"), Entry("ko", "Korean"),
       Entry("no", "Norwegian"), Entry("pl", "Polish"),
       Entry("pt", "Portuguese"), Entry("ru", "Russian"),
       Entry("es", "Spanish"), Entry("sv", "Swedish"), Entry("th", "Thai"),
       Entry("tr", "Turkish") >>

\* Python None and a present value, for the cache attribute
None == [none |-> TRUE, list |-> <<>>]
Some(l) == [none |-> FALSE, list |-> l]
\* truth value of `self.languages_cache`: None and the empty list are falsy
Truthy(c) == ~c.none /\ Len(c.list) > 0

\* What the provider's language endpoint can answer.  An item of a
\* 'translation' mapping is <<code, name>>, name "" standing for an item
\* without a 'name' key.
LangCodes == {"ar", "fr"}
LangNames == {"", "Arabic", "French", "arabic"}
LangItems == LangCodes \X LangNames
TranslationMappings ==
    {<<>>}
    \cup {<<i>> : i \in LangItems}
    \cup {<<i, j>> : <<i, j>> \in {p \in LangItems \X LangItems : p[1][1] # p[2][1]}}

LangFailures ==
    {"timeout", "connection_error", "http_error", "bad_json",
     "not_container", "no_translation", "translation_not_mapping",
     "item_not_object"}

LangResponses ==
    [kind : LangFailures, translation : {<<>>}]
    \cup [kind : {"ok"}, translation : TranslationMappings]

\* response.json() on a body that is not JSON raises
\* requests.exceptions.JSONDecodeError (a RequestException) with
\* requests >= 2.27 and ValueError before.
JsonErrors == {"JSONDecodeError", "ValueError"}

\* value.get('name', key)
NameOf(item) == IF item[2] = "" THEN item[1] ELSE item[2]

\* lines 36-43: the sentinel, then the items sorted by text
BuildLanguages(translation) ==
    <<Sentinel>> \o
    SortedByText([i \in 1..Len(translation) |->
                     Entry(translation[i][1], NameOf(translation[i]))])

\* The try block, lines 24-47: the exception it ends with (NoExc when it
\* returns) and the list it built.
LanguagesTry(resp, jsonErr) ==
    CASE resp.kind = "timeout"          -> [exc |-> "Timeout", list |-> <<>>]
      [] resp.kind = "connection_error" -> [exc |-> "ConnectionError", list |-> <<>>]
      [] resp.kind = "http_error"       -> [exc |-> "HTTPError", list |-> <<>>]
      [] resp.kind = "bad_json"         -> [exc |-> jsonErr, list |-> <<>>]
      [] resp.kind = "not_container"    -> [exc |-> "TypeError", list |-> <<>>]
      [] resp.kind = "no_translation"   -> [exc |-> "Exception", list |-> <<>>]
      [] resp.kind = "translation_not_mapping"
                                        -> [exc |-> "AttributeError", list |-> <<>>]
      [] resp.kind = "item_not_object"  -> [exc |-> "AttributeError", list |-> <<>>]
      [] OTHER -> [exc |-> NoExc, list |-> BuildLanguages(resp.translation)]

\* line 20: the cache is used when it is truthy
CacheHit(cache) == Truthy(cache)

\* line 49: `except Exception`
LangCaught(exc) == IsInstance(exc, "Exception")

\* the assignment of line 44 left out
CacheNotAssigned(cache, list) == cache

\* line 44: the cache after a try block that returned
CacheAfterSuccess(cache, list) == Some(list)

\* the fallback list kept like a fetched one
CacheFallbackKept(cache, fallback) == Some(fallback)

\* lines 49-52: the cache after a caught failure
CacheAfterFailure(cache, fallback) == cache

\* The whole call: the value returned, whether an exception escaped, the
\* number of fetches made and the cache afterwards.
get_supported_languages(cache, resp, jsonErr) ==
    IF CacheHit(cache)
    THEN [raised |-> FALSE, value |-> cache.list, fetched |-> 0,
          ok |-> FALSE, cache |-> cache]
    ELSE LET t == LanguagesTry(resp, jsonErr) IN
         IF t.exc = NoExc
         THEN [raised |-> FALSE, value |-> t.list, fetched |-> 1,
               ok |-> TRUE, cache |-> CacheAfterSuccess(cache, t.list)]
         ELSE IF LangCaught(t.exc)
         THEN [raised |-> FALSE, value |-> _get_fallback_languages,
               fetched |-> 1, ok |-> FALSE,
               cache |-> CacheAfterFailure(cache, _get_fallback_languages)]
         ELSE [raised |-> TRUE, value |-> <<>>, fetched |-> 1,
               ok |-> FALSE, cache |-> cache]

NoLangRet ==
    [raised |-> FALSE, value |-> <<>>, fetched |-> 0, ok |-> FALSE,
     resp |-> "none"]

InitLang ==
    /\ languages_cache = None
    /\ lang_fetches = 0
    /\ lang_calls = 0
    /\ lang_ret = NoLangRet
    /\ lang_first_ok = None
    /\ lang_ok_at = 0

\* GET /languages: one call of get_supported_languages on the global service
GetLanguages ==
    /\ lang_calls < MaxLangCalls
    /\ \E resp \in LangResponses, jsonErr \in JsonErrors :
          LET r == get_supported_languages(languages_cache, resp, jsonErr) IN
          /\ languages_cache' = r.cache
          /\ lang_fetches' = lang_fetches + r.fetched
          /\ lang_calls' = lang_calls + 1
          /\ lang_ret' = [raised |-> r.raised, value |-> r.value,
                          fetched |-> r.fetched, ok |-> r.ok,
                          resp |-> IF r.fetched = 1 THEN resp.kind ELSE "none"]
          /\ lang_first_ok' = IF lang_ok_at = 0 /\ r.ok
                              THEN Some(r.value) ELSE lang_first_ok
          /\ lang_ok_at' = IF lang_ok_at = 0 /\ r.ok
                           THEN lang_calls + 1 ELSE lang_ok_at
    /\ UNCHANGED <<tr_vars, db_vars, step_vars>>

-----------------------------------------------------------------------------
(* JSON values of a request body, and Python strings.                      *)
(* A string is `lead` blanks, `body` characters that neither start nor end *)
(* with a blank, and `trail` blanks; every other JSON value keeps only its *)
(* type.                                                                   *)

MaxTextLength == 5000

Str(l, b, t) == [t |-> "str", lead |-> l, body |-> b, trail |-> t]
Absent == [t |-> "absent", lead |-> 0, body |-> 0, trail |-> 0]
JsonNull == [t |-> "null", lead |-> 0, body |-> 0, trail |-> 0]
JsonNumber == [t |-> "number", lead |-> 0, body |-> 0, trail |-> 0]
EmptyStr == Str(0, 0, 0)

\* str.strip() and len()
strip(s) == Str(0, s.body, 0)
len(s) == s.lead + s.body + s.trail

TextBodies == {0, 1, MaxTextLength, MaxTextLength + 1}
TextValues ==
    {Absent, JsonNull, JsonNumber}
    \cup {Str(l, b, t) : l \in 0..1, b \in TextBodies, t \in 0..1}
TargetValues ==
    {Absent, JsonNull, JsonNumber}
    \cup {Str(l, b, t) : l \in 0..1, b \in {0, 2}, t \in 0..1}

\* request.get_json(): null, a JSON value that is no object (`items`
\* elements or characters long), or an object with the two keys of interest
\* and possibly others.
Payload(ty, n, text, target, others) ==
    [t |-> ty, items |-> n, text |-> text, target_language |-> target,
     others |-> others]
TranslatePayloads ==
    {Payload("null", 0, Absent, Absent, FALSE)}
    \cup {Payload("array", n, Absent, Absent, FALSE) : n \in 0..1}
    \cup {Payload("object", 0, x, y, o) :
             x \in TextValues, y \in TargetValues, o \in BOOLEAN}

\* truth value of `data`
Falsy(data) ==
    \/ data.t = "null"
    \/ data.t = "array" /\ data.items = 0
    \/ /\ data.t = "object"
       /\ data.text = Absent /\ data.target_language = Absent /\ ~data.others

\* data.get(key, ''): the default only stands in for an absent key
Get(v) == IF v = Absent THEN EmptyStr ELSE v

-----------------------------------------------------------------------------
(* AzureTranslatorConfig and TranslatorService.translate_text              *)

\* os.environ.get: unset (None), set to the empty string, or set
EnvValues == {"<None>", "", "value"}
Configs ==
    [TRANSLATOR_KEY : EnvValues, TRANSLATOR_ENDPOINT : EnvValues,
     TRANSLATOR_REGION : EnvValues]

Configured ==
    [TRANSLATOR_KEY |-> "value", TRANSLATOR_ENDPOINT |-> "value",
     TRANSLATOR_REGION |-> "value"]

EnvTruthy(v) == v \notin {"<None>", ""}

\* any() in place of all()
is_configured_any(cfg) ==
    \/ EnvTruthy(cfg.TRANSLATOR_KEY)
    \/ EnvTruthy(cfg.TRANSLATOR_ENDPOINT)
    \/ EnvTruthy(cfg.TRANSLATOR_REGION)

is_configured(cfg) ==
    /\ EnvTruthy(cfg.TRANSLATOR_KEY)
    /\ EnvTruthy(cfg.TRANSLATOR_ENDPOINT)
    /\ EnvTruthy(cfg.TRANSLATOR_REGION)

\* What requests.post and the provider can do to one translation request
TranslateOutcomes ==
    {"timeout", "connection_error", "http_error", "bad_json", "null_body",
     "empty_array", "not_array", "no_translations", "empty_translations",
     "no_text", "detected_not_object", "ok_detected", "ok_undetected"}

\* The try block, lines 88-116: the exception it ends with and its str()
TranslateTry(out, jsonErr) ==
    CASE out = "timeout"          -> [exc |-> "Timeout", cause |-> "Read timed out"]
      [] out = "connection_error" -> [exc |-> "ConnectionError", cause |-> "Connection refused"]
      [] out = "http_error"       -> [exc |-> "HTTPError", cause |-> "HTTP status error"]
      [] out = "bad_json"         -> [exc |-> jsonErr, cause |-> "Expecting value"]
      [] out = "null_body"        -> [exc |-> "Exception", cause |-> "Invalid translation response"]
      [] out = "empty_array"      -> [exc |-> "Exception", cause |-> "Invalid translation response"]
      [] out = "not_array"        -> [exc |-> "KeyError", cause |-> "0"]
      [] out = "no_translations"  -> [exc |-> "Exception", cause |-> "Invalid translation response"]
      [] out = "empty_translations" -> [exc |-> "IndexError", cause |-> "list index out of range"]
      [] out = "no_text"          -> [exc |-> "KeyError", cause |-> "'text'"]
      [] out = "detected_not_object" -> [exc |-> "AttributeError", cause |-> "no attribute 'get'"]
      [] OTHER                    -> [exc |-> NoExc, cause |-> ""]

\* the generic clause written before the specific one
ExceptClausesGenericFirst == <<"Timeout", "Exception", "RequestException">>

\* lines 118-128: the except clauses in their order
ExceptClauses == <<"Timeout", "RequestException", "Exception">>

\* the class named by the first clause that matches, NoExc when the
\* exception escapes
MatchingClause(exc) ==
    IF \E i \in 1..Len(ExceptClauses) : IsInstance(exc, ExceptClauses[i])
    THEN LET first == CHOOSE i \in 1..Len(ExceptClauses) :
                         /\ IsInstance(exc, ExceptClauses[i])
                         /\ \A j \in 1..(i - 1) :
                               ~IsInstance(exc, ExceptClauses[j])
         IN  ExceptClauses[first]
    ELSE NoExc

NotConfiguredError ==
    <<"Azure Translator service is ", "not configured",
      ". Please set the required environment variables.">>
TimeoutError == <<"Translation request timed out. Please try again.">>
ServiceError(cause) == <<"Translation service error: ", cause>>
FailedError(cause) == <<"Translation failed: ", cause>>

TrResult(raised, success, error, posts, translated, source, target) ==
    [raised |-> raised, success |-> success, error |-> error,
     posts |-> posts, translated_text |-> translated,
     source_language |-> source, target_language |-> target]

translate_text(cfg, text, target_language, out, jsonErr) ==
    IF ~is_configured(cfg)
    THEN TrResult(FALSE, FALSE, NotConfiguredError, 0, "", "", EmptyStr)
    ELSE LET t == TranslateTry(out, jsonErr)
             c == MatchingClause(t.exc)
         IN  IF t.exc = NoExc
             THEN TrResult(FALSE, TRUE, <<>>, 1, "Bonjour",
                           IF out = "ok_detected" THEN "en" ELSE "auto",
                           target_language)
             ELSE CASE c = "Timeout" ->
                         TrResult(FALSE, FALSE, TimeoutError, 1, "", "", EmptyStr)
                    [] c = "RequestException" ->
                         TrResult(FALSE, FALSE, ServiceError(t.cause), 1, "", "", EmptyStr)
                    [] c = "Exception" ->
                         TrResult(FALSE, FALSE, FailedError(t.cause), 1, "", "", EmptyStr)
                    [] OTHER ->
                         TrResult(TRUE, FALSE, <<>>, 1, "", "", EmptyStr)

-----------------------------------------------------------------------------
(* utils.validate_translation_request and the POST /translate handler      *)

NoDataMsg == <<"No data provided">>
NoTextMsg == <<"Please enter text to translate">>
NoTargetMsg == <<"Please select a target language">>
TooLongMsg == <<"Text is too long. Maximum 5000 characters allowed.">>

\* the length compared with the limit: utils.py line 70, api.py line 52
CheckedLength(raw) == len(strip(raw))

\* (ok, message), or the exception the function ends with
validate_translation_request(data) ==
    IF Falsy(data)
    THEN [exc |-> NoExc, ok |-> FALSE, msg |-> NoDataMsg]
    ELSE IF data.t # "object" \/ Get(data.text).t # "str"
            \/ Get(data.target_language).t # "str"
    THEN [exc |-> "AttributeError", ok |-> FALSE, msg |-> <<>>]
    ELSE IF strip(Get(data.text)).body = 0
    THEN [exc |-> NoExc, ok |-> FALSE, msg |-> NoTextMsg]
    ELSE IF strip(Get(data.target_language)).body = 0
    THEN [exc |-> NoExc, ok |-> FALSE, msg |-> NoTargetMsg]
    ELSE IF CheckedLength(Get(data.text)) > MaxTextLength
    THEN [exc |-> NoExc, ok |-> FALSE, msg |-> TooLongMsg]
    ELSE [exc |-> NoExc, ok |-> TRUE, msg |-> <<>>]

Response(data, status, error, fault, invoked, posts) ==
    [data |-> data, status |-> status, error |-> error, fault |-> fault,
     invoked |-> invoked, posts |-> posts]

\* An exception that leaves a view function: Flask answers 500 with its
\* own error page.
Fault(data, invoked, posts) == Response(data, 500, <<>>, TRUE, invoked, posts)

\* routes/api.py translate(): the response, with the number of
\* translate_text invocations and of network calls it took
translate(cfg, data, out, jsonErr) ==
    IF Falsy(data)
    THEN Response(data, 400, NoDataMsg, FALSE, 0, 0)
    ELSE IF data.t # "object" \/ Get(data.text).t # "str"
            \/ Get(data.target_language).t # "str"
    THEN Fault(data, 0, 0)
    ELSE LET source_text == strip(Get(data.text))
             target_language == strip(Get(data.target_language))
         IN  IF source_text.body = 0
             THEN Response(data, 400, NoTextMsg, FALSE, 0, 0)
             ELSE IF target_language.body = 0
             THEN Response(data, 400, NoTargetMsg, FALSE, 0, 0)
             ELSE IF CheckedLength(Get(data.text)) > MaxTextLength
             THEN Response(data, 400, TooLongMsg, FALSE, 0, 0)
             ELSE LET result == translate_text(cfg, source_text,
                                               target_language, out, jsonErr)
                  IN  IF result.raised
                      THEN Fault(data, 1, result.posts)
                      ELSE IF result.success
                      THEN Response(data, 200, <<>>, FALSE, 1, result.posts)
                      ELSE Response(data, 500, result.error, FALSE, 1,
                                    result.posts)

NoTrRet ==
    [called |-> FALSE, out |-> "none", text |-> EmptyStr,
     result |-> TrResult(FALSE, FALSE, <<>>, 0, "", "", EmptyStr)]
NoValRet == [called |-> FALSE, data |-> Payload("null", 0, Absent, Absent, FALSE),
             exc |-> NoExc, ok |-> FALSE, msg |-> <<>>]
NoHttp == [handled |-> FALSE,
           resp |-> Response(Payload("null", 0, Absent, Absent, FALSE), 0,
                             <<>>, FALSE, 0, 0)]

InitTr ==
    /\ config \in Configs
    /\ tr_ret = NoTrRet
    /\ val_ret = NoValRet
    /\ http = NoHttp

\* no response is waiting to be returned
Idle == tr_ret = NoTrRet /\ val_ret = NoValRet /\ http = NoHttp

\* a direct call of translator_service.translate_text
TranslateText ==
    /\ Idle
    /\ \E text \in {v \in TextValues : v.t = "str"},
          target \in {v \in TargetValues : v.t = "str"},
          out \in TranslateOutcomes, jsonErr \in JsonErrors :
          tr_ret' = [called |-> TRUE, out |-> out, text |-> text,
                     result |-> translate_text(config, text, target, out, jsonErr)]
    /\ val_ret' = NoValRet /\ http' = NoHttp
    /\ UNCHANGED <<config, lang_vars, db_vars, step_vars>>

\* a call of utils.validate_translation_request
ValidateTranslationRequest ==
    /\ Idle
    /\ \E data \in TranslatePayloads :
          LET v == validate_translation_request(data) IN
          val_ret' = [called |-> TRUE, data |-> data, exc |-> v.exc,
                      ok |-> v.ok, msg |-> v.msg]
    /\ tr_ret' = NoTrRet /\ http' = NoHttp
    /\ UNCHANGED <<config, lang_vars, db_vars, step_vars>>

\* POST /translate
Translate ==
    /\ Idle
    /\ \E data \in TranslatePayloads, out \in TranslateOutcomes,
          jsonErr \in JsonErrors :
          http' = [handled |-> TRUE,
                   resp |-> translate(config, data, out, jsonErr)]
    /\ tr_ret' = NoTrRet /\ val_ret' = NoValRet
    /\ UNCHANGED <<config, lang_vars, db_vars, step_vars>>

\* the caller takes the result; the service keeps nothing of the request
Return ==
    /\ ~Idle
    /\ tr_ret' = NoTrRet /\ val_ret' = NoValRet /\ http' = NoHttp
    /\ UNCHANGED <<config, lang_vars, db_vars, step_vars>>

-----------------------------------------------------------------------------
(* The test_results table and its three handlers in routes/api.py.         *)

\* Python floats: a finite value, nan, or an infinity of sign v
Fin(n) == [k |-> "fin", v |-> n]
NaN == [k |-> "nan", v |-> 0]
Inf(sign) == [k |-> "inf", v |-> sign]

\* accuracy < n and accuracy > n: every comparison with nan is false
Lt(a, n) == \/ a.k = "fin" /\ a.v < n
            \/ a.k = "inf" /\ a.v < 0
Gt(a, n) == \/ a.k = "fin" /\ a.v > n
            \/ a.k = "inf" /\ a.v > 0

\* JSON values of the 'accuracy' key: a number, the literal NaN (which
\* json.loads accepts), an integer too large for a float, a string, an
\* array, null, or no key at all.
Acc(ty, n, str) == [t |-> ty, v |-> n, s |-> str]
AccuracyValues ==
    {Acc("absent", 0, ""), Acc("null", 0, ""), Acc("nan", 0, ""),
     Acc("bigint", 0, ""), Acc("array", 1, "")}
    \cup {Acc("number", n, "") : n \in {0 - 1, 0, 100, 101}}
    \cup {Acc("str", 0, s) : s \in {"", "100", "abc", "nan", "inf"}}

\* truth value of data.get('accuracy')
AccFalsy(a) ==
    \/ a.t \in {"absent", "null"}
    \/ a.t = "number" /\ a.v = 0
    \/ a.t = "str" /\ a.s = ""
    \/ a.t = "array" /\ a.v = 0

\* float() of a string
FloatOfStr(s) ==
    CASE s = "100" -> [exc |-> NoExc, value |-> Fin(100)]
      [] s = "nan" -> [exc |-> NoExc, value |-> NaN]
      [] s = "inf" -> [exc |-> NoExc, value |-> Inf(1)]
      [] OTHER     -> [exc |-> "ValueError", value |-> NaN]

\* float(data.get('accuracy'))
float(a) ==
    CASE a.t = "number" -> [exc |-> NoExc, value |-> Fin(a.v)]
      [] a.t = "nan"    -> [exc |-> NoExc, value |-> NaN]
      [] a.t = "bigint" -> [exc |-> "OverflowError", value |-> NaN]
      [] a.t = "str"    -> FloatOfStr(a.s)
      [] OTHER          -> [exc |-> "TypeError", value |-> NaN]

\* the range test of line 115 (utils.py line 91)
OutOfRange(accuracy) == Lt(accuracy, 0) \/ Gt(accuracy, 100)

OutcomeValues == {"<absent>", "", "Success", "Failure"}
OutcomeFalsy(o) == o \in {"<absent>", ""}

SavePayload(ty, n, outcome, accuracy) ==
    [t |-> ty, items |-> n, outcome |-> outcome, accuracy |-> accuracy]
NoSavePayload == SavePayload("null", 0, "<absent>", Acc("absent", 0, ""))
SavePayloads ==
    {NoSavePayload, SavePayload("array", 1, "<absent>", Acc("absent", 0, ""))}
    \cup {SavePayload("object", 0, o, a) :
             o \in OutcomeValues, a \in AccuracyValues}

SaveFalsy(data) ==
    \/ data.t = "null"
    \/ data.t = "array" /\ data.items = 0
    \/ /\ data.t = "object"
       /\ data.outcome = "<absent>" /\ data.accuracy.t = "absent"

Row(id, outcome, accuracy, created_at) ==
    [id |-> id, outcome |-> outcome, accuracy |-> accuracy,
     created_at |-> created_at]

RequiredOutcomeMsg == <<"Outcome is required">>
RequiredAccuracyMsg == <<"Accuracy is required">>
RangeMsg == <<"Accuracy must be between 0 and 100">>
NumberMsg == <<"Accuracy must be a valid number">>
SaveFailedMsg(cause) == <<"Failed to save test results: ", cause>>
NotFoundMsg == <<"Test result not found">>

\* utils.validate_test_result_data: (ok, message, accuracy), or the
\* exception the function ends with
validate_test_result_data(data) ==
    IF SaveFalsy(data)
    THEN [exc |-> NoExc, ok |-> FALSE, msg |-> NoDataMsg, accuracy |-> NaN]
    ELSE IF data.t # "object"
    THEN [exc |-> "AttributeError", ok |-> FALSE, msg |-> <<>>, accuracy |-> NaN]
    ELSE IF OutcomeFalsy(data.outcome)
    THEN [exc |-> NoExc, ok |-> FALSE, msg |-> RequiredOutcomeMsg, accuracy |-> NaN]
    ELSE IF AccFalsy(data.accuracy)
    THEN [exc |-> NoExc, ok |-> FALSE, msg |-> RequiredAccuracyMsg, accuracy |-> NaN]
    ELSE LET f == float(data.accuracy) IN
         IF f.exc \in {"ValueError", "TypeError"}
         THEN [exc |-> NoExc, ok |-> FALSE, msg |-> NumberMsg, accuracy |-> NaN]
         ELSE IF f.exc # NoExc
         THEN [exc |-> f.exc, ok |-> FALSE, msg |-> <<>>, accuracy |-> NaN]
         ELSE IF OutOfRange(f.value)
         THEN [exc |-> NoExc, ok |-> FALSE, msg |-> RangeMsg, accuracy |-> NaN]
         ELSE [exc |-> NoExc, ok |-> TRUE, msg |-> <<>>, accuracy |-> f.value]

\* What a handler answers and leaves in the table
DbResult(status, error, rows, id) ==
    [status |-> status, error |-> error, rows |-> rows, id |-> id]

\* save_test_results: the same checks written out in the handler, then the
\* insert.  `commit` is what db.session.commit() does: "ok", or the class
\* of the exception it raises.  An exception other than ValueError reaches
\* the last clause: rollback and 500.
save_test_results(rows, data, id, now, commit) ==
    LET v == validate_test_result_data(data) IN
    IF v.exc # NoExc
    THEN DbResult(500, SaveFailedMsg(v.exc), rows, 0)
    ELSE IF ~v.ok
    THEN DbResult(400, v.msg, rows, 0)
    ELSE IF commit # "ok"
    THEN DbResult(500, SaveFailedMsg(commit), rows, 0)
    ELSE DbResult(200, <<>>,
                  rows \cup {Row(id, data.outcome, v.accuracy, now)}, id)

\* the first row of the table, whatever its id
QueryFirst(rows, result_id) ==
    IF rows = {} THEN {} ELSE {CHOOSE r \in rows : TRUE}

\* TestResult.query.get(result_id)
QueryGet(rows, result_id) == {r \in rows : r.id = result_id}

\* delete_test_result: `lookup` and `commit` are "ok" or the exception
\* class raised by the query and by the commit
delete_test_result(rows, result_id, lookup, commit) ==
    IF lookup # "ok"
    THEN DbResult(500, <<lookup>>, rows, result_id)
    ELSE IF QueryGet(rows, result_id) = {}
    THEN DbResult(404, NotFoundMsg, rows, result_id)
    ELSE IF commit # "ok"
    THEN DbResult(500, <<commit>>, rows, result_id)
    ELSE DbResult(200, <<>>, rows \ QueryGet(rows, result_id), result_id)

RECURSIVE Perms(_)
Perms(S) ==
    IF S = {} THEN {<<>>}
    ELSE UNION {{<<x>> \o p : p \in Perms(S \ {x})} : x \in S}

\* ORDER BY created_at DESC: every order of the rows the database may
\* return; rows with equal created_at come in any order
OrderByCreatedAtDesc(rows) ==
    {s \in Perms(rows) :
        \A i, j \in 1..Len(s) : i < j => s[i].created_at >= s[j].created_at}

\* lines 177-178: the filter is applied when it is a non-empty string
Filtered(rows, outcome_filter) ==
    IF outcome_filter # ""
    THEN {r \in rows : r.outcome = outcome_filter}
    ELSE rows

Min(a, b) == IF a < b THEN a ELSE b

\* query.paginate(page, per_page) for page >= 1 and per_page >= 1
PageItems(ordered, page, per_page) ==
    SubSeq(ordered, (page - 1) * per_page + 1,
           Min(page * per_page, Len(ordered)))
PageCount(total, per_page) == (total + per_page - 1) \div per_page

ListResult(status, items, page, per_page, total, pages) ==
    [status |-> status, items |-> items, page |-> page,
     per_page |-> per_page, total |-> total, pages |-> pages,
     has_next |-> page < pages, has_prev |-> page > 1]

\* get_test_results, `ordered` being the order the database returned
get_test_results(ordered, page, per_page, query) ==
    IF query # "ok"
    THEN ListResult(500, <<>>, page, per_page, 0, 0)
    ELSE ListResult(200, PageItems(ordered, page, per_page), page, per_page,
                    Len(ordered), PageCount(Len(ordered), per_page))

\* A value of the query string: absent, text that is no integer, or an
\* integer
ArgAbsent == [t |-> "absent", n |-> 0]
ArgText == [t |-> "text", n |-> 0]
ArgInt(n) == [t |-> "int", n |-> n]
PageArgs == {ArgAbsent, ArgText} \cup {ArgInt(n) : n \in -1..(MaxPage + 1)}
PerPageArgs == {ArgAbsent, ArgText} \cup {ArgInt(n) : n \in -1..MaxPerPage}

DefaultPage == 1
DefaultPerPage == 10
PaginatePerPage == 20

\* request.args.get(name, default, type=int): the default when the value is
\* absent or int() refuses it
TypeInt(arg, default) == IF arg.t = "int" THEN arg.n ELSE default

\* query.paginate(page=, per_page=, error_out=False): a page below 1 becomes
\* page 1 and a per_page below 1 becomes 20.  Flask-SQLAlchemy before 3.0
\* (`legacy`) replaces only a negative per_page and runs LIMIT 0 for 0.
PaginateArgs(page, per_page, legacy) ==
    [page |-> IF page < 1 THEN 1 ELSE page,
     per_page |-> IF per_page < 0 \/ (per_page = 0 /\ ~legacy)
                  THEN PaginatePerPage ELSE per_page]

\* get_test_results for any query string: the response repeats the
\* arguments as the handler read them (lines 196-197), the items, pages,
\* has_next and has_prev are those of the Pagination object
list_test_results(ordered, page_arg, per_page_arg, query, legacy) ==
    LET page == TypeInt(page_arg, DefaultPage)
        per_page == TypeInt(per_page_arg, DefaultPerPage)
        a == PaginateArgs(page, per_page, legacy)
        pages == IF a.per_page = 0 THEN 0
                 ELSE PageCount(Len(ordered), a.per_page)
        items == IF a.per_page = 0 THEN <<>>
                 ELSE PageItems(ordered, a.page, a.per_page)
    IN  IF query # "ok"
        THEN ListResult(500, <<>>, page, per_page, 0, 0)
        ELSE [ListResult(200, items, page, per_page, Len(ordered), pages)
                 EXCEPT !.has_next = a.page < pages, !.has_prev = a.page > 1]

NoExportMsg == <<"No test results to export">>
LibrariesMsg == <<"Pandas and openpyxl libraries are required for Excel export">>

\* df.to_excel writes a missing value, which a NaN float is for pandas, as
\* an empty cell (na_rep = '') and any other float as a number
EmptyCell == [k |-> "empty", v |-> 0]
ExcelCell(accuracy) == IF accuracy = NaN THEN EmptyCell ELSE accuracy

\* lines 227-241 and 243-247: one data row of the sheet per record
SheetRow(r) ==
    [id |-> r.id, outcome |-> r.outcome, accuracy |-> ExcelCell(r.accuracy),
     created_at |-> r.created_at]

ExportResult(status, error, file, sheet) ==
    [status |-> status, error |-> error, file |-> file, sheet |-> sheet]

\* export_test_results: `lib` is "ok" or the ImportError of line 217,
\* `query` is "ok" or the exception class raised by the query of line 221
export_test_results(ordered, lib, query) ==
    IF lib # "ok"
    THEN ExportResult(500, LibrariesMsg, FALSE, <<>>)
    ELSE IF query # "ok"
    THEN ExportResult(500, <<query>>, FALSE, <<>>)
    ELSE IF ordered = <<>>
    THEN ExportResult(404, NoExportMsg, FALSE, <<>>)
    ELSE ExportResult(200, <<>>, TRUE,
                      [i \in 1..Len(ordered) |-> SheetRow(ordered[i])])

NoSaved == [valid |-> FALSE, id |-> 0, total_before |-> 0]

NoDb ==
    [op |-> "none", data |-> NoSavePayload, status |-> 0, error |-> <<>>,
     id |-> 0, before |-> {}, filter |-> "", lookup |-> "ok",
     list |-> ListResult(0, <<>>, 1, 1, 0, 0),
     page_arg |-> ArgAbsent, per_page_arg |-> ArgAbsent,
     lib |-> "ok", file |-> FALSE, sheet |-> <<>>]

DbErrors == {"ok", "SQLAlchemyError"}

InitDb ==
    /\ test_results = {}
    /\ next_id = 1
    /\ clock = 1
    /\ db_last = NoDb
    /\ just_saved = NoSaved

DbIdle == db_last = NoDb

\* POST /save-test-results.  created_at is the clock read at the insert;
\* the clock never runs backwards but two inserts can read the same value.
SaveTestResults ==
    /\ DbIdle
    /\ next_id <= MaxIds
    /\ \E data \in SavePayloads, now \in clock..MaxClock, commit \in DbErrors :
          LET r == save_test_results(test_results, data, next_id, now, commit)
          IN  /\ test_results' = r.rows
              /\ next_id' = IF r.status = 200 THEN next_id + 1 ELSE next_id
              /\ clock' = IF r.status = 200 THEN now ELSE clock
              /\ just_saved' =
                    IF r.status = 200
                    THEN [valid |-> TRUE, id |-> r.id,
                          total_before |-> Cardinality(test_results)]
                    ELSE just_saved
              /\ db_last' = [NoDb EXCEPT !.op = "save", !.data = data,
                                         !.status = r.status,
                                         !.error = r.error, !.id = r.id,
                                         !.before = test_results]
    /\ UNCHANGED <<lang_vars, tr_vars, step_vars>>

\* DELETE /test-results/<result_id>
DeleteTestResult ==
    /\ DbIdle
    /\ \E result_id \in 1..MaxIds, lookup \in DbErrors, commit \in DbErrors :
          LET r == delete_test_result(test_results, result_id, lookup, commit)
          IN  /\ test_results' = r.rows
              /\ just_saved' = IF r.status = 200 THEN NoSaved ELSE just_saved
              /\ db_last' = [NoDb EXCEPT !.op = "delete",
                                         !.status = r.status,
                                         !.error = r.error, !.id = result_id,
                                         !.lookup = lookup,
                                         !.before = test_results]
    /\ UNCHANGED <<next_id, clock, lang_vars, tr_vars, step_vars>>

\* GET /test-results?page=&per_page=&outcome=
GetTestResults ==
    /\ DbIdle
    /\ \E page \in 1..MaxPage, per_page \in 1..MaxPerPage,
          outcome_filter \in {"", "Success", "Failure"}, query \in DbErrors :
       \E ordered \in OrderByCreatedAtDesc(Filtered(test_results, outcome_filter)) :
          db_last' = [NoDb EXCEPT !.op = "list", !.filter = outcome_filter,
                                  !.before = test_results,
                                  !.list = get_test_results(ordered, page,
                                                            per_page, query),
                                  !.status = get_test_results(ordered, page,
                                                              per_page, query).status]
    /\ UNCHANGED <<test_results, next_id, clock, just_saved, lang_vars, tr_vars, step_vars>>

\* GET /test-results with any page and per_page in the query string
ListTestResults ==
    /\ DbIdle
    /\ \E page_arg \in PageArgs, per_page_arg \in PerPageArgs,
          outcome_filter \in {"", "Success"}, query \in DbErrors,
          legacy \in BOOLEAN :
       \E ordered \in OrderByCreatedAtDesc(Filtered(test_results, outcome_filter)) :
          LET r == list_test_results(ordered, page_arg, per_page_arg, query,
                                     legacy)
          IN  db_last' = [NoDb EXCEPT !.op = "list", !.filter = outcome_filter,
                                      !.before = test_results,
                                      !.page_arg = page_arg,
                                      !.per_page_arg = per_page_arg,
                                      !.list = r, !.status = r.status]
    /\ UNCHANGED <<test_results, next_id, clock, just_saved, lang_vars, tr_vars, step_vars>>

\* GET /export-test-results
ExportTestResults ==
    /\ DbIdle
    /\ \E lib \in {"ok", "ImportError"}, query \in DbErrors :
       \E ordered \in OrderByCreatedAtDesc(test_results) :
          LET r == export_test_results(ordered, lib, query)
          IN  db_last' = [NoDb EXCEPT !.op = "export", !.lib = lib,
                                      !.lookup = query,
                                      !.before = test_results,
                                      !.status = r.status, !.error = r.error,
                                      !.file = r.file, !.sheet = r.sheet]
    /\ UNCHANGED <<test_results, next_id, clock, just_saved, lang_vars, tr_vars, step_vars>>

\* the response is sent
ReturnDb ==
    /\ ~DbIdle
    /\ db_last' = NoDb
    /\ UNCHANGED <<test_results, next_id, clock, just_saved, lang_vars, tr_vars, step_vars>>

NextDb == SaveTestResults \/ DeleteTestResult \/ GetTestResults \/ ReturnDb

-----------------------------------------------------------------------------
(* The handlers on the table step by step: the work before the commit,     *)
(* db.session.commit(), and the except clause.  Every worker thread has    *)
(* its own db.session; the session is kept from one request of the worker  *)
(* to the next, so that what the handlers leave in it stays visible.       *)

Workers == 1..NumWorkers

\* an object handed to db.session.add: id and created_at come at the flush
\* (`err` is the exception the handler caught; `aborted` tells that an
\* earlier commit of this worker failed)
Pending(outcome, accuracy) == [outcome |-> outcome, accuracy |-> accuracy]
NoPending == Pending("<absent>", NaN)

IdleWorker ==
    [pc |-> "idle", op |-> "none", new |-> <<>>, deleted |-> {},
     status |-> 0, id |-> 0, obj |-> NoPending,
     err |-> NoExc, aborted |-> FALSE]

InitStep ==
    /\ workers = [p \in Workers |-> IdleWorker]
    /\ ok_saves = 0
    /\ ok_deletes = 0

\* the session without what was left pending in it
RollbackSkipped(w) == w

\* db.session.rollback(): the pending inserts and deletes are dropped
SessionRollback(w) == [w EXCEPT !.new = <<>>, !.deleted = {}]

\* The flush of a commit: one DELETE per object marked deleted (a row that
\* is gone already matches nothing, which SQLAlchemy reports as a warning)
\* and one INSERT per pending object, ids taken from the identity column.
Flush(rows, w, id0, now) ==
    {r \in rows : r.id \notin w.deleted}
    \cup {Row(id0 + i - 1, w.new[i].outcome, w.new[i].accuracy, now) :
             i \in 1..Len(w.new)}

PendingInserts == LET RECURSIVE Sum(_)
                      Sum(S) == IF S = {} THEN 0
                                ELSE LET p == CHOOSE q \in S : TRUE
                                     IN  Len(workers[p].new) + Sum(S \ {p})
                  IN  Sum(Workers)

\* save_test_results up to db.session.add (lines 90-140)
TxSave(p) ==
    /\ workers[p].pc = "idle"
    /\ next_id + PendingInserts <= MaxIds
    /\ \E data \in SavePayloads :
          LET v == validate_test_result_data(data)
              w == [workers[p] EXCEPT !.op = "save"]
          IN  workers' = [workers EXCEPT ![p] =
                 IF v.exc # NoExc
                 THEN [w EXCEPT !.pc = "except", !.err = v.exc]
                 ELSE IF ~v.ok
                 THEN [w EXCEPT !.pc = "done", !.status = 400]
                 ELSE [w EXCEPT !.pc = "commit",
                                !.obj = Pending(data.outcome, v.accuracy),
                                !.new = Append(w.new,
                                               Pending(data.outcome, v.accuracy))]]
    /\ UNCHANGED <<ok_saves, ok_deletes, callers, test_results, next_id, clock,
                   db_last, just_saved, lang_vars, tr_vars>>

\* delete_test_result up to db.session.delete (lines 283-291)
TxDelete(p) ==
    /\ workers[p].pc = "idle"
    /\ \E result_id \in 1..MaxIds, lookup \in DbErrors :
          LET w == [workers[p] EXCEPT !.op = "delete", !.id = result_id]
          IN  workers' = [workers EXCEPT ![p] =
                 IF lookup # "ok"
                 THEN [w EXCEPT !.pc = "except", !.err = lookup]
                 ELSE IF QueryGet(test_results, result_id) = {}
                 THEN [w EXCEPT !.pc = "done", !.status = 404]
                 ELSE [w EXCEPT !.pc = "commit",
                                !.deleted = w.deleted \cup {result_id}]]
    /\ UNCHANGED <<ok_saves, ok_deletes, callers, test_results, next_id, clock,
                   db_last, just_saved, lang_vars, tr_vars>>

\* db.session.commit() (line 141, line 292): the flush in one transaction,
\* or an exception that leaves the table as it was
TxCommit(p) ==
    /\ workers[p].pc = "commit"
    /\ \E commit \in DbErrors, now \in clock..MaxClock :
          LET w == workers[p] IN
          IF commit = "ok"
          THEN /\ test_results' = Flush(test_results, w, next_id, now)
               /\ next_id' = next_id + Len(w.new)
               /\ clock' = IF w.new # <<>> THEN now ELSE clock
               /\ workers' = [workers EXCEPT ![p] =
                                 [w EXCEPT !.pc = "done", !.status = 200,
                                           !.new = <<>>, !.deleted = {}]]
               /\ ok_saves' = IF w.op = "save" THEN ok_saves + 1 ELSE ok_saves
               /\ ok_deletes' = IF w.op = "delete" THEN ok_deletes + 1
                                ELSE ok_deletes
          ELSE /\ workers' = [workers EXCEPT ![p] =
                                 [w EXCEPT !.pc = "except", !.err = commit,
                                           !.aborted = TRUE]]
               /\ UNCHANGED <<test_results, next_id, clock, ok_saves, ok_deletes>>
    /\ UNCHANGED <<callers, db_last, just_saved, lang_vars, tr_vars>>

\* the except clause (lines 156-161, lines 296-299): rollback, then 500
TxExcept(p) ==
    /\ workers[p].pc = "except"
    /\ workers' = [workers EXCEPT ![p] =
                      [SessionRollback(workers[p]) EXCEPT !.pc = "done",
                                                          !.status = 500]]
    /\ UNCHANGED <<ok_saves, ok_deletes, callers, test_results, next_id, clock,
                   db_last, just_saved, lang_vars, tr_vars>>

\* the response is sent; the worker takes its next request
TxReturn(p) ==
    /\ workers[p].pc = "done"
    /\ workers' = [workers EXCEPT ![p] =
                      [IdleWorker EXCEPT !.new = workers[p].new,
                                         !.deleted = workers[p].deleted,
                                         !.aborted = workers[p].aborted]]
    /\ UNCHANGED <<ok_saves, ok_deletes, callers, test_results, next_id, clock,
                   db_last, just_saved, lang_vars, tr_vars>>

-----------------------------------------------------------------------------
(* get_supported_languages step by step on the one global service object:  *)
(* the check of the cache (line 20), the fetch (lines 24-43) and the       *)
(* assignment (line 44) of one caller interleave with those of the others. *)

Callers == 1..NumCallers

\* `after` tells whether the cache had been assigned when the call got the
\* value it returns
IdleCaller ==
    [pc |-> "idle", list |-> <<>>, value |-> <<>>, raised |-> FALSE,
     after |-> FALSE]

InitCallers == callers = [c \in Callers |-> IdleCaller]

\* line 20
CallCheck(c) ==
    /\ callers[c].pc = "idle"
    /\ lang_calls < MaxLangCalls
    /\ lang_calls' = lang_calls + 1
    /\ callers' = [callers EXCEPT ![c] =
          IF CacheHit(languages_cache)
          THEN [IdleCaller EXCEPT !.pc = "done",
                                  !.value = languages_cache.list,
                                  !.after = lang_first_ok # None]
          ELSE [IdleCaller EXCEPT !.pc = "fetch"]]
    /\ UNCHANGED <<languages_cache, lang_fetches, lang_ret, lang_first_ok,
                   lang_ok_at, workers, ok_saves, ok_deletes, tr_vars, db_vars>>

\* lines 24-43, and lines 49-52 when the try block raises
CallFetch(c) ==
    /\ callers[c].pc = "fetch"
    /\ lang_fetches' = lang_fetches + 1
    /\ \E resp \in LangResponses, jsonErr \in JsonErrors :
          LET t == LanguagesTry(resp, jsonErr) IN
          callers' = [callers EXCEPT ![c] =
             IF t.exc = NoExc
             THEN [@ EXCEPT !.pc = "assign", !.list = t.list]
             ELSE IF LangCaught(t.exc)
             THEN [@ EXCEPT !.pc = "done",
                            !.value = _get_fallback_languages,
                            !.after = lang_first_ok # None]
             ELSE [@ EXCEPT !.pc = "done", !.raised = TRUE,
                            !.after = lang_first_ok # None]]
    /\ UNCHANGED <<languages_cache, lang_calls, lang_ret, lang_first_ok,
                   lang_ok_at, workers, ok_saves, ok_deletes, tr_vars, db_vars>>

\* lines 44-45
CallAssign(c) ==
    /\ callers[c].pc = "assign"
    /\ languages_cache' = CacheAfterSuccess(languages_cache, callers[c].list)
    /\ lang_first_ok' = IF lang_first_ok = None
                        THEN Some(callers[c].list) ELSE lang_first_ok
    /\ lang_ok_at' = IF lang_ok_at = 0 THEN lang_calls ELSE lang_ok_at
    /\ callers' = [callers EXCEPT ![c] =
                      [@ EXCEPT !.pc = "done", !.value = callers[c].list,
                                !.after = TRUE]]
    /\ UNCHANGED <<lang_fetches, lang_calls, lang_ret, workers, ok_saves,
                   ok_deletes, tr_vars, db_vars>>

\* the call has returned; the caller may call again
CallReturn(c) ==
    /\ callers[c].pc = "done"
    /\ callers' = [callers EXCEPT ![c] = IdleCaller]
    /\ UNCHANGED <<languages_cache, lang_fetches, lang_calls, lang_ret,
                   lang_first_ok, lang_ok_at, workers, ok_saves, ok_deletes,
                   tr_vars, db_vars>>

\* the application started with the provider configured
Init ==
    /\ InitLang /\ InitDb /\ InitStep /\ InitCallers
    /\ config = Configured
    /\ tr_ret = NoTrRet /\ val_ret = NoValRet /\ http = NoHttp

\* the application started with any configuration of the provider
InitAnyConfig == InitLang /\ InitTr /\ InitDb /\ InitStep /\ InitCallers

SpecDb == Init /\ [][NextDb]_vars

\* the table under requests with any query string
NextList == SaveTestResults \/ DeleteTestResult \/ ListTestResults \/ ReturnDb
SpecList == Init /\ [][NextList]_vars

\* the table under saves, deletes and exports
NextExport ==
    SaveTestResults \/ DeleteTestResult \/ ExportTestResults \/ ReturnDb
SpecExport == Init /\ [][NextExport]_vars

-----------------------------------------------------------------------------
(* The specifications: one per component, the others at rest.              *)

NextLang == GetLanguages

SpecLang == Init /\ [][NextLang]_vars

NextTr == TranslateText \/ ValidateTranslationRequest \/ Translate \/ Return

SpecTr == InitAnyConfig /\ [][NextTr]_vars

\* one worker thread taking save and delete requests one after the other
NextTx == TxSave(1) \/ TxDelete(1) \/ TxCommit(1) \/ TxExcept(1) \/ TxReturn(1)
SpecTx == Init /\ [][NextTx]_vars

\* the worker threads of the server taking requests concurrently
NextConc ==
    \E p \in Workers :
        TxSave(p) \/ TxDelete(p) \/ TxCommit(p) \/ TxExcept(p) \/ TxReturn(p)
SpecConc == Init /\ [][NextConc]_vars

\* concurrent requests for the language list
NextCache ==
    \E c \in Callers :
        CallCheck(c) \/ CallFetch(c) \/ CallAssign(c) \/ CallReturn(c)
SpecCache == Init /\ [][NextCache]_vars

-----------------------------------------------------------------------------
(* Properties of the language cache.                                       *)

\* C1: the first call of get_supported_languages makes exactly one network
\* fetch; every call after the first successful one makes no fetch, raises
\* nothing and returns the list that successful call returned, so that the
\* number of fetches stays what it was when the fetch succeeded.
C1_CachedAfterFirstSuccess ==
    /\ (lang_calls = 1 => lang_fetches = 1)
    /\ (lang_ok_at > 0 /\ lang_calls > lang_ok_at) =>
          /\ lang_ret.fetched = 0
          /\ ~lang_ret.raised
          /\ lang_ret.value = lang_first_ok.list
          /\ languages_cache = lang_first_ok
          /\ lang_fetches = lang_ok_at

\* two calls served from the cache after a success on the second call, the
\* cached list being the sentinel and two languages in code-point order
C1_Witness ==
    /\ lang_ok_at = 2 /\ lang_calls = 4
    /\ lang_ret.fetched = 0
    /\ lang_ret.value = <<Sentinel, Entry("fr", "French"), Entry("ar", "ar")>>

\* C2: a call whose fetch fails in any way raises nothing, returns the
\* fallback list (the sentinel and 19 languages) and leaves the cache
\* empty; up to the first success every call has made its own fetch.
C2_FailureFallsBackUncached ==
    /\ (lang_calls > 0 /\ lang_ret.resp \in LangFailures) =>
          /\ ~lang_ret.raised
          /\ lang_ret.value = _get_fallback_languages
          /\ Len(lang_ret.value) = 20
          /\ lang_ret.value[1] = Sentinel
          /\ languages_cache = None
    /\ (lang_ok_at = 0 \/ lang_ok_at = lang_calls) => lang_fetches = lang_calls

\* the third failing call in a row, each of which went to the network
C2_Witness ==
    /\ lang_calls = 3 /\ lang_ok_at = 0 /\ lang_fetches = 3
    /\ lang_ret.resp = "no_translation"
    /\ lang_ret.value = _get_fallback_languages

-----------------------------------------------------------------------------
(* Properties of the translation client.                                   *)

Contains(message, part) == \E i \in 1..Len(message) : message[i] = part

Missing(v) == v = "<None>" \/ v = ""

CredentialsMissing ==
    \/ Missing(config.TRANSLATOR_KEY)
    \/ Missing(config.TRANSLATOR_ENDPOINT)
    \/ Missing(config.TRANSLATOR_REGION)

\* C3: with any of key, endpoint or region missing, translate_text returns
\* success false with an error containing "not configured" and makes no
\* network call, whatever the text and the target language; the handler
\* that invoked it answers with that error.
C3_NotConfiguredNoNetwork ==
    /\ (tr_ret.called /\ CredentialsMissing) =>
          /\ ~tr_ret.result.raised
          /\ ~tr_ret.result.success
          /\ Contains(tr_ret.result.error, "not configured")
          /\ tr_ret.result.posts = 0
    /\ (http.handled /\ http.resp.invoked = 1 /\ CredentialsMissing) =>
          /\ http.resp.status = 500
          /\ Contains(http.resp.error, "not configured")
          /\ http.resp.posts = 0

\* a call with only the region missing, on the longest text
C3_Witness ==
    /\ tr_ret.called
    /\ config.TRANSLATOR_KEY = "value" /\ config.TRANSLATOR_ENDPOINT = "value"
    /\ config.TRANSLATOR_REGION = ""
    /\ tr_ret.text.body = MaxTextLength + 1
    /\ tr_ret.out = "ok_detected"
    /\ tr_ret.result.error = NotConfiguredError

TransportFailures == {"connection_error"}
MalformedResponses ==
    {"bad_json", "null_body", "empty_array", "not_array", "no_translations",
     "empty_translations", "no_text", "detected_not_object"}

IsServiceError(e) == Len(e) = 2 /\ e[1] = "Translation service error: "
IsFailedError(e) == Len(e) = 2 /\ e[1] = "Translation failed: "

\* C4: a failing translate_text call is classified by the first match of:
\* credentials missing -> configuration error; timeout -> timeout error;
\* another transport error -> 'Translation service error: <cause>'; a
\* malformed or unexpected response -> 'Translation failed: <cause>'; and
\* no exception escapes.
C4_FailureClassification ==
    (tr_ret.called /\ ~tr_ret.result.success) =>
        /\ ~tr_ret.result.raised
        /\ IF CredentialsMissing
           THEN tr_ret.result.error = NotConfiguredError
           ELSE /\ tr_ret.out = "timeout" =>
                      tr_ret.result.error = TimeoutError
                /\ tr_ret.out \in TransportFailures =>
                      IsServiceError(tr_ret.result.error)
                /\ tr_ret.out \in MalformedResponses =>
                      IsFailedError(tr_ret.result.error)
                /\ \/ tr_ret.result.error = TimeoutError
                   \/ IsServiceError(tr_ret.result.error)
                   \/ IsFailedError(tr_ret.result.error)

\* C5 as stated: an empty array, a first element without 'translations'
\* and a non-2xx status are all reported as 'Translation failed'.
C5_AllInvalidResponse ==
    (tr_ret.called /\ ~CredentialsMissing
       /\ tr_ret.out \in {"empty_array", "no_translations", "http_error"}) =>
        /\ ~tr_ret.result.success
        /\ IsFailedError(tr_ret.result.error)

\* C5: with credentials configured, an empty JSON array and a first element
\* without a 'translations' key are reported as 'Translation failed:
\* Invalid translation response'; a non-2xx status is reported by the
\* RequestException clause as 'Translation service error: <cause>'.
C5_InvalidResponseKinds ==
    (tr_ret.called /\ ~CredentialsMissing) =>
        /\ tr_ret.out \in {"empty_array", "no_translations"} =>
              /\ ~tr_ret.result.success /\ ~tr_ret.result.raised
              /\ tr_ret.result.error =
                    FailedError("Invalid translation response")
        /\ tr_ret.out = "http_error" =>
              /\ ~tr_ret.result.success /\ ~tr_ret.result.raised
              /\ IsServiceError(tr_ret.result.error)

\* a non-2xx answer reported as a service error
C5_Witness ==
    /\ tr_ret.called /\ config = Configured
    /\ tr_ret.out = "http_error"
    /\ tr_ret.result.posts = 1
    /\ tr_ret.result.error = ServiceError("HTTP status error")

-----------------------------------------------------------------------------
(* Properties of the request validation.                                   *)

IsStrOrAbsent(v) == v.t \in {"str", "absent"}
TrimmedEmpty(v) == Get(v).body = 0
TrimmedLength(v) == Get(v).body

\* the message of the first failing check of the four, <<>> when all pass;
\* defined where the first failing check can be told
FirstFailingCheck(data) ==
    IF Falsy(data) THEN NoDataMsg
    ELSE IF TrimmedEmpty(data.text) THEN NoTextMsg
    ELSE IF TrimmedEmpty(data.target_language) THEN NoTargetMsg
    ELSE IF TrimmedLength(data.text) > MaxTextLength THEN TooLongMsg
    ELSE <<>>

ChecksDecided(data) ==
    \/ Falsy(data)
    \/ /\ data.t = "object" /\ IsStrOrAbsent(data.text)
       /\ \/ TrimmedEmpty(data.text)
          \/ IsStrOrAbsent(data.target_language)

\* C6: POST /translate and validate_translation_request check, in this
\* order, payload absent, trimmed text empty, trimmed target_language
\* empty, trimmed text longer than 5000; the first failing check's message
\* is returned with status 400 and translate_text is not invoked; a payload
\* passing all four leads to exactly one translate_text invocation.
C6_ChecksInOrder ==
    /\ (http.handled /\ ChecksDecided(http.resp.data)) =>
          LET msg == FirstFailingCheck(http.resp.data) IN
          IF msg # <<>>
          THEN /\ http.resp.status = 400 /\ ~http.resp.fault
               /\ http.resp.error = msg
               /\ http.resp.invoked = 0 /\ http.resp.posts = 0
          ELSE http.resp.invoked = 1
    /\ (http.handled /\ http.resp.status = 400) => http.resp.invoked = 0
    /\ (val_ret.called /\ ChecksDecided(val_ret.data)) =>
          LET msg == FirstFailingCheck(val_ret.data) IN
          /\ val_ret.exc = NoExc
          /\ val_ret.ok = (msg = <<>>)
          /\ val_ret.msg = msg

-----------------------------------------------------------------------------
(* Properties of the result store.                                         *)

InRange(a) == a.k = "fin" /\ a.v >= 0 /\ a.v <= 100

\* the value parses as a finite number within [0,100]
AccuracyAcceptable(a) == float(a).exc = NoExc /\ InRange(float(a).value)

\* C7: a save whose accuracy is absent, does not parse as a finite number
\* or parses outside [0,100] is rejected with 400 and persists nothing;
\* every stored row has an accuracy within [0,100] and an outcome.
C7_InvalidAccuracyRejected ==
    /\ (db_last.op = "save" /\ db_last.data.t = "object"
          /\ ~AccuracyAcceptable(db_last.data.accuracy)) =>
          /\ db_last.status = 400
          /\ test_results = db_last.before
    /\ \A r \in test_results : InRange(r.accuracy) /\ ~OutcomeFalsy(r.outcome)

\* C8: after a successful save, a list of page 1 without filter returns
\* the saved record first and a total one more than before the save.
C8_SavedRecordFirst ==
    (db_last.op = "list" /\ db_last.status = 200 /\ just_saved.valid
       /\ db_last.list.page = 1 /\ db_last.list.per_page >= 1
       /\ db_last.filter = "") =>
        /\ Len(db_last.list.items) >= 1
        /\ db_last.list.items[1].id = just_saved.id
        /\ db_last.list.total = just_saved.total_before + 1

\* created_at descending, equal created_at by id descending
CreatedAtThenIdDesc(rows) ==
    CHOOSE s \in Perms(rows) :
        \A i, j \in 1..Len(s) : i < j =>
            \/ s[i].created_at > s[j].created_at
            \/ s[i].created_at = s[j].created_at /\ s[i].id > s[j].id

\* C9: the list returns exactly the rows whose outcome equals the filter
\* (all rows without a filter), by created_at descending and, for equal
\* created_at, by id descending: the page is a function of the table.
C9_ListOrderDetermined ==
    (db_last.op = "list" /\ db_last.status = 200) =>
        LET matching == IF db_last.filter = "" THEN db_last.before
                        ELSE {r \in db_last.before :
                                 r.outcome = db_last.filter}
        IN  /\ db_last.list.total = Cardinality(matching)
            /\ db_last.list.items =
                  PageItems(CreatedAtThenIdDesc(matching), db_last.list.page,
                            db_last.list.per_page)

\* C10: a delete of an id that is not in the table answers 404 with the
\* not-found message when the lookup worked and 500 when the lookup hit a
\* storage failure, never success; in both cases the table keeps the same
\* rows and the same count.  A 404 is only ever given for an absent id.
C10_DeleteMissingNotFound ==
    /\ (db_last.op = "delete"
          /\ ~\E r \in db_last.before : r.id = db_last.id) =>
          /\ IF db_last.lookup = "ok"
             THEN db_last.status = 404 /\ db_last.error = NotFoundMsg
             ELSE db_last.status = 500 /\ db_last.error # NotFoundMsg
          /\ test_results = db_last.before
          /\ Cardinality(test_results) = Cardinality(db_last.before)
    /\ (db_last.op = "delete" /\ db_last.status = 404) =>
          ~\E r \in db_last.before : r.id = db_last.id

\* not found for an id that was deleted before, two rows staying
C10_Witness ==
    /\ db_last.op = "delete" /\ db_last.status = 404
    /\ db_last.id = 1 /\ next_id = 4
    /\ Cardinality(test_results) = 2

\* C11: a save whose commit fails with a storage error leaves the table as
\* it was and is answered 500 after a rollback that empties the session;
\* so the commit of a later save adds exactly the row of that save, and
\* the commit of a later delete removes exactly its row and adds none.
CommitFailed(w1, w2) == w1.pc = "commit" /\ w2.pc = "except"
CommitDone(w1, w2) == w1.pc = "commit" /\ w2.pc = "done"
Answered(w1, w2) == w1.pc = "except" /\ w2.pc = "done"

C11_FailedSaveRolledBack ==
    [][LET w1 == workers[1]
           w2 == workers'[1]
       IN  /\ CommitFailed(w1, w2) => test_results' = test_results
           /\ Answered(w1, w2) =>
                 /\ w2.status = 500
                 /\ w2.new = <<>> /\ w2.deleted = {}
                 /\ test_results' = test_results
           /\ (CommitDone(w1, w2) /\ w1.op = "save") =>
                 /\ w2.status = 200
                 /\ test_results' =
                       test_results
                       \cup {Row(next_id, w1.obj.outcome, w1.obj.accuracy,
                                 clock')}
                 /\ Cardinality(test_results') = Cardinality(test_results) + 1
           /\ (CommitDone(w1, w2) /\ w1.op = "delete") =>
                 test_results' = test_results \ QueryGet(test_results, w1.id)
      ]_vars

\* a save succeeds on a table with a row, after a commit of the worker failed
C11_Witness ==
    LET w == workers[1] IN
    /\ w.pc = "done" /\ w.op = "save" /\ w.status = 200
    /\ w.aborted /\ Cardinality(test_results) >= 2

\* C12: in every successful answer of GET /test-results the items are
\* the page that pagination.page and pagination.per_page of the answer
\* describe: both are at least 1 and the items are that page of the
\* matching rows in an order by created_at descending.
Matching ==
    IF db_last.filter = "" THEN db_last.before
    ELSE {r \in db_last.before : r.outcome = db_last.filter}

C12_ItemsAreTheDescribedPage ==
    (db_last.op = "list" /\ db_last.status = 200) =>
        /\ db_last.list.page >= 1
        /\ db_last.list.per_page >= 1
        /\ \E ordered \in OrderByCreatedAtDesc(Matching) :
              db_last.list.items = PageItems(ordered, db_last.list.page,
                                             db_last.list.per_page)

\* C13: a POST /translate request that does not succeed is answered 400
\* or 500 by the handler with a body {success: false, error}; no payload
\* and no provider behaviour makes an exception leave the view function.
C13_FailuresAreStructured ==
    (http.handled /\ http.resp.status # 200) =>
        /\ ~http.resp.fault
        /\ http.resp.status \in {400, 500}
        /\ http.resp.error # <<>>

\* C14: when its libraries load and its query succeeds, the export gives
\* a file exactly when the table holds a record: 404 with the 'no data'
\* message and no file for an empty table; otherwise one data row per
\* stored record, by created_at descending, with the stored accuracy.
C14_ExportMatchesStore ==
    (db_last.op = "export" /\ db_last.lib = "ok" /\ db_last.lookup = "ok") =>
        /\ db_last.file <=> db_last.before # {}
        /\ db_last.before = {} =>
              db_last.status = 404 /\ db_last.error = NoExportMsg
        /\ db_last.before # {} =>
              /\ db_last.status = 200
              /\ Len(db_last.sheet) = Cardinality(db_last.before)
              /\ \A r \in db_last.before :
                    \E i \in 1..Len(db_last.sheet) :
                       /\ db_last.sheet[i].id = r.id
                       /\ db_last.sheet[i].accuracy = r.accuracy
              /\ \A i, j \in 1..Len(db_last.sheet) :
                    i < j => db_last.sheet[i].created_at
                                >= db_last.sheet[j].created_at

\* C15: under any interleaving of the steps of concurrent save and delete
\* requests no two stored rows share an id, and the number of stored rows
\* is the number of saves answered 200 minus the number of deletes
\* answered 200.
C15_CountsUnderConcurrency ==
    /\ \A r1, r2 \in test_results : r1.id = r2.id => r1 = r2
    /\ Cardinality(test_results) = ok_saves - ok_deletes

\* C16: with concurrent callers on a cold cache, the cache keeps the list
\* of its first assignment, and every call that gets its value after that
\* assignment returns that list.
C16_CacheStableOncePopulated ==
    /\ lang_first_ok # None => languages_cache = lang_first_ok
    /\ \A c \in Callers :
          (callers[c].pc = "done" /\ callers[c].after) =>
              /\ ~callers[c].raised
              /\ callers[c].value = lang_first_ok.list

====
